---- MODULE Spec2Model ----
(***************************************************************************)
(* Model of the Email-Scheduler backend: the schedule controller, the      *)
(* emails table, the BullMQ email queue, the email worker processor, the   *)
(* per-sender hourly rate limiter and the restart loader                   *)
(* requeuePendingEmails.                                                   *)
(*                                                                         *)
(* Time is a discrete clock `now`.  One tick stands for the base backoff   *)
(* delay of the queue (2000 ms); an hour window is HourLen ticks long.     *)
(* The emails table lives in PostgreSQL and the queue and the rate-limit   *)
(* counters live in Redis: both survive a crash of the server process.     *)
(***************************************************************************)
EXTENDS Integers, Sequences, FiniteSets, TLC

\* ---------------------------------------------------------------- bounds
MaxEmails == 2
MaxTime == 4
MaxCrashes == 1
MaxSched == 2
HourLen == 5
OneReq == 1
MaxSignals == 2

\* ------------------------------------------------------ program constants
\* MAX_EMAILS_PER_HOUR is the configured MAX_EMAILS_PER_HOUR_PER_SENDER;
\* BACKOFF_DELAY is the queue's backoff delay of 2000 ms, one tick, and
\* MIN_DELAY the worker's MIN_DELAY_BETWEEN_EMAILS_MS of 2000 ms, one tick
WORKER_CONCURRENCY == 5
MAX_EMAILS_PER_HOUR == 1
ATTEMPTS == 3
BACKOFF_DELAY == 1
MAX_STALLED_COUNT == 1
MIN_DELAY == 1

\* the backoff type of the queue's defaultJobOptions, and the length of one
\* tick in milliseconds
BACKOFF_TYPE == "exponential"
TICK_MS == 2000
SHUTDOWN_TIMEOUT_MS == 5000

\* ------------------------------------------------------------ value sets
EmailIds == 1..MaxEmails
ReqIds == 1..MaxEmails
Keys == {1}
NoKey == 0
Senders == {"s1"}

\* a sender that belongs to another user
OtherSenders == {"s2"}
AllSenders == Senders \cup OtherSenders

\* senders.user_id: the user who owns sender s
Owner(s) == IF s \in Senders THEN "u1" ELSE "u2"
SchedTimes == 0..MaxSched
Windows == 0..(MaxTime \div HourLen)
LogStatuses == {"SCHEDULED", "SENT", "FAILED"}

JobIds ==
  {<<"key", k>> : k \in Keys} \cup {<<"auto", n>> : n \in 1..MaxEmails}
    \cup {<<"id", e>> : e \in EmailIds}

VARIABLES
  now,          \* wall clock
  server,       \* "up" | "down": the server process (API, worker, loader)
  crashes,      \* number of crashes so far
  emails,       \* the emails table, by id; status "NONE" = no such row
  logs,         \* the email_logs table: entries per email and status
  jobs,         \* the BullMQ queue in Redis, by job id
  nextAuto,     \* BullMQ's id counter for jobs added without a jobId
  counter,      \* Redis keys rate_limit:<sender>:<hour window>
  reqs,         \* schedule requests and the position of their handlers
  rec,          \* requeuePendingEmails: position and fetched rows
  delivered,    \* history: sendEmail successes per email
  firstSendAt,  \* history: time of the first sendEmail call per email
  sentIn,       \* history: sendEmail successes per sender and window
  atStart,      \* history: status of every email at the last process start
  startTime,    \* history: time of the last process start
  cancel,       \* the cancel request and the position of its handler
  failedOpen,   \* history: jobs whose rate-limit check met a Redis error
  loaderErrs,   \* history: failures met by the current run of the loader
  shut          \* gracefulShutdown: flag, position, start of the current step

vars ==
  <<now, server, crashes, emails, logs, jobs, nextAuto, counter, reqs, rec,
    delivered, firstSendAt, sentIn, atStart, startTime, cancel, failedOpen,
    loaderErrs, shut>>

NoEmail ==
  [status |-> "NONE", sender_id |-> "s1", scheduled_at |-> 0,
   idempotency_key |-> NoKey, error_message |-> "none", sent_at |-> -1,
   attempt_count |-> 0]

NoJob ==
  [state |-> "none", emailId |-> 0, senderId |-> "s1", runAt |-> 0,
   attemptsMade |-> 0, stalled |-> 0, pc |-> "idle", err |-> "none",
   wakeAt |-> 0]

NoReq ==
  [pc |-> "free", key |-> NoKey, sched |-> 0, sender |-> "s1",
   emailId |-> 0, code |-> 0, prior |-> {}]

NoErrs == [query |-> FALSE, enqueue |-> {}]

NoCancel == [pc |-> "free", emailId |-> 0, deleted |-> FALSE, code |-> 0]

\* ------------------------------------------------------------- helpers
Max(a, b) == IF a >= b THEN a ELSE b

Min(a, b) == IF a <= b THEN a ELSE b

RECURSIVE Pow2(_)
Pow2(n) == IF n <= 0 THEN 1 ELSE 2 * Pow2(n - 1)

\* getCurrentHourWindow: the label of the clock hour that contains t
getCurrentHourWindow(t) == t \div HourLen

\* rows of the emails table
Rows == {e \in EmailIds : emails[e].status # "NONE"}

\* an update of the emails table that writes nothing
UpdateNothing(tbl, e, status, msg, sentAt) == tbl

\* .update(fields).eq('id', e): no effect when the row does not exist
UpdateEmail(tbl, e, status, msg, sentAt) ==
  IF tbl[e].status = "NONE" THEN tbl
  ELSE [tbl EXCEPT ![e].status = status,
                   ![e].error_message = IF msg = "keep" THEN @ ELSE msg,
                   ![e].sent_at = IF sentAt < 0 THEN @ ELSE sentAt]

\* an insert into email_logs that writes nothing
LogNothing(tbl, lg, e, status) == lg

\* .insert into email_logs: rejected by the foreign key when the email row
\* does not exist
InsertLog(tbl, lg, e, status) ==
  IF tbl[e].status = "NONE" THEN lg
  ELSE [lg EXCEPT ![e][status] = @ + 1]

\* a key look-up that finds nothing
LookupNothing(k) == 0

\* getEmailByIdempotencyKey: the id of the row with that key, 0 when none
getEmailByIdempotencyKey(k) ==
  IF \E e \in Rows : emails[e].idempotency_key = k
  THEN CHOOSE e \in Rows : emails[e].idempotency_key = k
  ELSE 0

\* a job that is due at once, whatever its scheduled time
DelayNone(scheduledAt) == 0

\* addEmailToQueue: delay of the job
Delay(scheduledAt) == Max(0, scheduledAt - now)

\* the job id under which the schedule controller adds an email
ScheduleJobId(e, key) ==
  IF key # NoKey THEN <<"key", key>> ELSE <<"auto", nextAuto>>

\* the job id under which requeuePendingEmails adds an email
RequeueJobId(e, key) ==
  IF key # NoKey THEN <<"key", key>> ELSE <<"id", e>>

\* emailQueue.add with a jobId: a job id that already exists in the queue
\* (in any state) is left as it is
QueueAdd(q, jid, e, s, scheduledAt) ==
  IF q[jid].state # "none" THEN q
  ELSE [q EXCEPT ![jid] =
         [NoJob EXCEPT !.state = "delayed", !.emailId = e, !.senderId = s,
                       !.runAt = now + Delay(scheduledAt)]]

\* a fixed backoff: the base delay before every retry
BackoffFixed(attemptsMade) == BACKOFF_DELAY

\* backoff of the queue's defaultJobOptions: exponential on the base delay
Backoff(attemptsMade) == Pow2(attemptsMade - 1) * BACKOFF_DELAY

\* the worker's settings.backoffStrategy, in ticks: the time left until the
\* next clock hour for a rate-limited failure, min(2^attemptsMade s, 60 s)
\* for any other
backoffStrategy(attemptsMade, err) ==
  IF err = "RATE_LIMITED"
  THEN (getCurrentHourWindow(now) + 1) * HourLen - now
  ELSE Min(Pow2(attemptsMade) * 1000, 60000) \div TICK_MS

\* the delay the queue puts before a retry: a builtin backoff type of the
\* job options takes precedence, the worker's strategy serves custom types
RetryDelay(attemptsMade, err) ==
  IF BACKOFF_TYPE \in {"fixed", "exponential"}
  THEN Backoff(attemptsMade)
  ELSE backoffStrategy(attemptsMade, err)

\* an increment that counts one delivery twice
IncrementTwice(c, s, w) == [c EXCEPT ![s][w] = @ + 2]

\* incrementRateLimit: INCR of the key of sender s and hour window w
incrementRateLimit(c, s, w) == [c EXCEPT ![s][w] = @ + 1]

\* a rate limiter that turns the attempt away when its store cannot be read
DeniedOnError(s) == FALSE

\* checkRateLimit's catch block: allowed is true when redis.get has failed
AllowedOnError(s) == TRUE

\* checkRateLimit(senderId).allowed
Allowed(s) == counter[s][getCurrentHourWindow(now)] < MAX_EMAILS_PER_HOUR

\* jobs whose processor is running in the live process
Running == {j \in JobIds : jobs[j].state = "active" /\ jobs[j].pc # "orphan"}

\* jobs that reference email e, in any state
JobsOf(e) == {j \in JobIds : jobs[j].state # "none" /\ jobs[j].emailId = e}

\* jobs that reference email e and can still run
LiveJobsOf(e) == {j \in JobsOf(e) : jobs[j].state \in {"delayed", "active"}}

\* a process that is running and has not been told to stop
NoShut ==
  [pc |-> "run", isShuttingDown |-> FALSE, since |-> 0, runs |-> 0,
   signals |-> 0]

\* the steps of gracefulShutdown that wait for a close
Closing == {"worker", "queue", "redis"}

\* the timeout raced against each close, in ticks (rounded up)
CloseTimeout == (SHUTDOWN_TIMEOUT_MS + TICK_MS - 1) \div TICK_MS

\* the timer of the current close step is due
TimerDue == shut.pc \in Closing /\ now >= shut.since + CloseTimeout

\* a guard that lets every signal start the close sequence
NeverShuttingDown(sh) == FALSE

\* if (isShuttingDown) return
AlreadyShuttingDown(sh) == sh.isShuttingDown

\* app.listen has been called and server.close has not
Listening == server = "up" /\ rec.pc = "done" /\ ~shut.isShuttingDown

\* ---------------------------------------------------------------- Init
Init ==
  /\ now = 0
  /\ server = "up"
  /\ crashes = 0
  /\ emails = [e \in EmailIds |-> NoEmail]
  /\ logs = [e \in EmailIds |-> [s \in LogStatuses |-> 0]]
  /\ jobs = [j \in JobIds |-> NoJob]
  /\ nextAuto = 1
  /\ counter = [s \in AllSenders |-> [w \in Windows |-> 0]]
  /\ reqs = [r \in ReqIds |-> NoReq]
  /\ rec = [pc |-> "done", pending |-> <<>>]
  /\ delivered = [e \in EmailIds |-> 0]
  /\ firstSendAt = [e \in EmailIds |-> -1]
  /\ sentIn = [s \in AllSenders |-> [w \in Windows |-> 0]]
  /\ atStart = [e \in EmailIds |-> "NONE"]
  /\ startTime = 0
  /\ cancel = NoCancel
  /\ failedOpen = {}
  /\ loaderErrs = NoErrs
  /\ shut = NoShut

\* ------------------------------------------------------------- the clock
Tick ==
  /\ now < MaxTime
  /\ ~TimerDue
  /\ now' = now + 1
  /\ UNCHANGED <<server, crashes, emails, logs, jobs, nextAuto, counter,
                 reqs, rec, delivered, firstSendAt, sentIn, atStart,
                 startTime,
                 cancel, failedOpen,
                 loaderErrs,
                 shut>>

\* ------------------------------------------ scheduleEmailController
\* request arrives; getSenderById finds the caller's sender
ReqStart(r, k, t, s) ==
  /\ Listening
  /\ reqs[r].pc = "free"
  /\ \A q \in ReqIds : q < r => reqs[q].pc # "free"
  /\ reqs' = [reqs EXCEPT ![r] =
       [NoReq EXCEPT !.pc = IF k # NoKey THEN "lookup" ELSE "insert",
                     !.key = k, !.sched = t, !.sender = s,
                     !.prior = {q \in ReqIds : reqs[q].pc = "done"}]]
  /\ UNCHANGED <<now, server, crashes, emails, logs, jobs, nextAuto,
                 counter, rec, delivered, firstSendAt, sentIn, atStart,
                 startTime,
                 cancel, failedOpen,
                 loaderErrs,
                 shut>>

\* if (data.idempotencyKey) { existingEmail = getEmailByIdempotencyKey }
ReqLookup(r) ==
  /\ server = "up"
  /\ reqs[r].pc = "lookup"
  /\ LET existing == getEmailByIdempotencyKey(reqs[r].key) IN
       reqs' = [reqs EXCEPT ![r] =
         IF existing # 0
         THEN [@ EXCEPT !.pc = "done", !.code = 200, !.emailId = existing]
         ELSE [@ EXCEPT !.pc = "insert"]]
  /\ UNCHANGED <<now, server, crashes, emails, logs, jobs, nextAuto,
                 counter, rec, delivered, firstSendAt, sentIn, atStart,
                 startTime,
                 cancel, failedOpen,
                 loaderErrs,
                 shut>>

\* createEmail: the insert fails on the UNIQUE idempotency_key, the error
\* is thrown and the controller answers 500
ReqInsert(r) ==
  /\ server = "up"
  /\ reqs[r].pc = "insert"
  /\ LET k == reqs[r].key
         dup == k # NoKey /\ \E e \in Rows : emails[e].idempotency_key = k
         id == r    \* a fresh uuid, never that of a deleted row
     IN
       IF dup
       THEN /\ reqs' = [reqs EXCEPT ![r].pc = "done", ![r].code = 500]
            /\ UNCHANGED emails
       ELSE /\ emails' = [emails EXCEPT ![id] =
                 [NoEmail EXCEPT !.status = "SCHEDULED",
                                 !.sender_id = reqs[r].sender,
                                 !.scheduled_at = reqs[r].sched,
                                 !.idempotency_key = k,
                                 !.attempt_count = 0]]
            /\ reqs' = [reqs EXCEPT ![r].pc = "enqueue", ![r].emailId = id]
  /\ UNCHANGED <<now, server, crashes, logs, jobs, nextAuto, counter, rec,
                 delivered, firstSendAt, sentIn, atStart, startTime,
                 cancel, failedOpen,
                 loaderErrs,
                 shut>>

\* addEmailToQueue(..., email.idempotencyKey || undefined)
ReqEnqueue(r) ==
  /\ server = "up"
  /\ reqs[r].pc = "enqueue"
  /\ LET e == reqs[r].emailId
         k == reqs[r].key
     IN
       /\ jobs' = QueueAdd(jobs, ScheduleJobId(e, k), e, reqs[r].sender,
                           reqs[r].sched)
       /\ nextAuto' = IF k = NoKey THEN nextAuto + 1 ELSE nextAuto
  /\ reqs' = [reqs EXCEPT ![r].pc = "log"]
  /\ UNCHANGED <<now, server, crashes, emails, logs, counter, rec,
                 delivered, firstSendAt, sentIn, atStart, startTime,
                 cancel, failedOpen,
                 loaderErrs,
                 shut>>

\* addEmailToQueue throws (the queue's store rejects the add): the
\* controller logs the error and goes on to the 201 response
ReqEnqueueFails(r) ==
  /\ server = "up"
  /\ reqs[r].pc = "enqueue"
  /\ reqs' = [reqs EXCEPT ![r].pc = "log"]
  /\ UNCHANGED <<now, server, crashes, emails, logs, jobs, nextAuto, counter,
                 rec, delivered, firstSendAt, sentIn, atStart, startTime,
                 cancel, failedOpen,
                 loaderErrs,
                 shut>>

\* createEmailLog(SCHEDULED) and the 201 response
ReqLog(r) ==
  /\ server = "up"
  /\ reqs[r].pc = "log"
  /\ logs' = InsertLog(emails, logs, reqs[r].emailId, "SCHEDULED")
  /\ reqs' = [reqs EXCEPT ![r].pc = "done", ![r].code = 201]
  /\ UNCHANGED <<now, server, crashes, emails, jobs, nextAuto, counter,
                 rec, delivered, firstSendAt, sentIn, atStart, startTime,
                 cancel, failedOpen,
                 loaderErrs,
                 shut>>

\* ------------------------------------------------ cancelEmailController
\* getEmailById and the ownership check: 404 when there is no such row
CancelStart(e) ==
  /\ Listening
  /\ cancel.pc = "free"
  /\ cancel' = IF emails[e].status = "NONE"
               THEN [NoCancel EXCEPT !.pc = "done", !.emailId = e,
                                     !.code = 404]
               ELSE [NoCancel EXCEPT !.pc = "delete", !.emailId = e]
  /\ UNCHANGED <<now, server, crashes, emails, logs, jobs, nextAuto, counter,
                 reqs, rec, delivered, firstSendAt, sentIn, atStart,
                 startTime, failedOpen,
                 loaderErrs,
                 shut>>

\* deleteEmail: the row is deleted, and its email_logs rows with it
\* (ON DELETE CASCADE); the job of the email stays in the queue
CancelDelete ==
  /\ server = "up"
  /\ cancel.pc = "delete"
  /\ emails' = [emails EXCEPT ![cancel.emailId] = NoEmail]
  /\ logs' = [logs EXCEPT ![cancel.emailId] = [s \in LogStatuses |-> 0]]
  /\ cancel' = [cancel EXCEPT !.pc = "log", !.deleted = TRUE]
  /\ UNCHANGED <<now, server, crashes, jobs, nextAuto, counter, reqs, rec,
                 delivered, firstSendAt, sentIn, atStart, startTime,
                 failedOpen,
                 loaderErrs,
                 shut>>

\* createEmailLog({emailId, status: 'CANCELLED'}): the insert is rejected by
\* the foreign key, the error is thrown and the controller answers 500
CancelLog ==
  /\ server = "up"
  /\ cancel.pc = "log"
  /\ cancel' = [cancel EXCEPT !.pc = "done",
                 !.code = IF emails[cancel.emailId].status = "NONE"
                          THEN 500 ELSE 200]
  /\ UNCHANGED <<now, server, crashes, emails, logs, jobs, nextAuto, counter,
                 reqs, rec, delivered, firstSendAt, sentIn, atStart,
                 startTime, failedOpen,
                 loaderErrs,
                 shut>>

\* ------------------------------------------------- emailWorker processor
\* the worker takes a job whose delay has elapsed
PickJob(j) ==
  /\ server = "up"
  /\ ~shut.isShuttingDown
  /\ jobs[j].state = "delayed"
  /\ jobs[j].runAt <= now
  /\ Cardinality(Running) < WORKER_CONCURRENCY
  /\ jobs' = [jobs EXCEPT ![j].state = "active", ![j].pc = "check"]
  /\ UNCHANGED <<now, server, crashes, emails, logs, nextAuto, counter,
                 reqs, rec, delivered, firstSendAt, sentIn, atStart,
                 startTime,
                 cancel, failedOpen,
                 loaderErrs,
                 shut>>

\* 1. checkRateLimit(senderId); throws RATE_LIMITED when not allowed
CheckRateLimit(j) ==
  /\ server = "up"
  /\ jobs[j].state = "active" /\ jobs[j].pc = "check"
  /\ jobs' = IF Allowed(jobs[j].senderId)
             THEN [jobs EXCEPT ![j].pc = "mark"]
             ELSE [jobs EXCEPT ![j].pc = "catch", ![j].err = "RATE_LIMITED"]
  /\ UNCHANGED <<now, server, crashes, emails, logs, nextAuto, counter,
                 reqs, rec, delivered, firstSendAt, sentIn, atStart,
                 startTime,
                 cancel, failedOpen,
                 loaderErrs,
                 shut>>

\* 1. checkRateLimit: redis.get rejects, control enters the catch block
RedisGetFails(j) ==
  /\ server = "up"
  /\ jobs[j].state = "active" /\ jobs[j].pc = "check"
  /\ jobs' = [jobs EXCEPT ![j].pc = "checkerr"]
  /\ failedOpen' = failedOpen \cup {j}
  /\ UNCHANGED <<now, server, crashes, emails, logs, nextAuto, counter,
                 reqs, rec, delivered, firstSendAt, sentIn, atStart,
                 startTime, cancel,
                 loaderErrs,
                 shut>>

\* 1. checkRateLimit returns from its catch block; the processor throws
\* RATE_LIMITED when the result is not allowed
FailOpen(j) ==
  /\ server = "up"
  /\ jobs[j].state = "active" /\ jobs[j].pc = "checkerr"
  /\ jobs' = IF AllowedOnError(jobs[j].senderId)
             THEN [jobs EXCEPT ![j].pc = "mark"]
             ELSE [jobs EXCEPT ![j].pc = "catch", ![j].err = "RATE_LIMITED"]
  /\ UNCHANGED <<now, server, crashes, emails, logs, nextAuto, counter,
                 reqs, rec, delivered, firstSendAt, sentIn, atStart,
                 startTime, cancel, failedOpen,
                 loaderErrs,
                 shut>>

\* 2.-4. status RETRYING, sender lookup; the throttle timer is started
MarkRetrying(j) ==
  /\ server = "up"
  /\ jobs[j].state = "active" /\ jobs[j].pc = "mark"
  /\ emails' = UpdateEmail(emails, jobs[j].emailId, "RETRYING", "keep", -1)
  /\ jobs' = [jobs EXCEPT ![j].pc = "throttle", ![j].wakeAt = now + MIN_DELAY]
  /\ UNCHANGED <<now, server, crashes, logs, nextAuto, counter, reqs, rec,
                 delivered, firstSendAt, sentIn, atStart, startTime,
                 cancel, failedOpen,
                 loaderErrs,
                 shut>>

\* 4. the throttle delay of this attempt has elapsed:
\* await new Promise(resolve => setTimeout(resolve, MIN_DELAY_MS))
Throttle(j) ==
  /\ server = "up"
  /\ jobs[j].state = "active" /\ jobs[j].pc = "throttle"
  /\ jobs[j].wakeAt <= now
  /\ jobs' = [jobs EXCEPT ![j].pc = "send", ![j].wakeAt = 0]
  /\ UNCHANGED <<now, server, crashes, emails, logs, nextAuto, counter,
                 reqs, rec, delivered, firstSendAt, sentIn, atStart,
                 startTime, cancel, failedOpen, loaderErrs,
                 shut>>

\* 6. sendEmail: returns (ok) or throws
SendEmail(j, ok) ==
  /\ server = "up"
  /\ jobs[j].state = "active" /\ jobs[j].pc = "send"
  /\ LET e == jobs[j].emailId
         s == jobs[j].senderId
         w == getCurrentHourWindow(now)
     IN
       /\ firstSendAt' =
            IF firstSendAt[e] < 0 THEN [firstSendAt EXCEPT ![e] = now]
            ELSE firstSendAt
       /\ IF ok
          THEN /\ delivered' = [delivered EXCEPT ![e] = @ + 1]
               /\ sentIn' = [sentIn EXCEPT ![s][w] = @ + 1]
               /\ jobs' = [jobs EXCEPT ![j].pc = "sent"]
          ELSE /\ UNCHANGED <<delivered, sentIn>>
               /\ jobs' = [jobs EXCEPT ![j].pc = "catch",
                                       ![j].err = "SEND_FAILED"]
  /\ UNCHANGED <<now, server, crashes, emails, logs, nextAuto, counter,
                 reqs, rec, atStart, startTime,
                 cancel, failedOpen,
                 loaderErrs,
                 shut>>

\* 6. sendEmail throws an error that no retry can cure: the recipient
\* address is rejected
SendEmailInvalid(j) ==
  /\ server = "up"
  /\ jobs[j].state = "active" /\ jobs[j].pc = "send"
  /\ firstSendAt' =
       IF firstSendAt[jobs[j].emailId] < 0
       THEN [firstSendAt EXCEPT ![jobs[j].emailId] = now]
       ELSE firstSendAt
  /\ jobs' = [jobs EXCEPT ![j].pc = "catch", ![j].err = "INVALID_RECIPIENT"]
  /\ UNCHANGED <<now, server, crashes, emails, logs, nextAuto, counter,
                 reqs, rec, delivered, sentIn, atStart, startTime,
                 cancel, failedOpen,
                 loaderErrs,
                 shut>>

\* 7. status SENT, sent_at
UpdateSent(j) ==
  /\ server = "up"
  /\ jobs[j].state = "active" /\ jobs[j].pc = "sent"
  /\ emails' = UpdateEmail(emails, jobs[j].emailId, "SENT", "keep", now)
  /\ jobs' = [jobs EXCEPT ![j].pc = "log"]
  /\ UNCHANGED <<now, server, crashes, logs, nextAuto, counter, reqs, rec,
                 delivered, firstSendAt, sentIn, atStart, startTime,
                 cancel, failedOpen,
                 loaderErrs,
                 shut>>

\* 7. the update to SENT fails in the store: supabase returns {error}, the
\* processor does not look at it and goes on
UpdateSentFails(j) ==
  /\ server = "up"
  /\ jobs[j].state = "active" /\ jobs[j].pc = "sent"
  /\ jobs' = [jobs EXCEPT ![j].pc = "log"]
  /\ UNCHANGED <<now, server, crashes, emails, logs, nextAuto, counter,
                 reqs, rec, delivered, firstSendAt, sentIn, atStart,
                 startTime, cancel, failedOpen,
                 loaderErrs,
                 shut>>

\* 8. email_logs entry SENT
InsertSentLog(j) ==
  /\ server = "up"
  /\ jobs[j].state = "active" /\ jobs[j].pc = "log"
  /\ logs' = InsertLog(emails, logs, jobs[j].emailId, "SENT")
  /\ jobs' = [jobs EXCEPT ![j].pc = "incr"]
  /\ UNCHANGED <<now, server, crashes, emails, nextAuto, counter, reqs,
                 rec, delivered, firstSendAt, sentIn, atStart, startTime,
                 cancel, failedOpen,
                 loaderErrs,
                 shut>>

\* 9. incrementRateLimit(senderId), then the processor returns and the
\* queue marks the job completed
IncrementAndReturn(j) ==
  /\ server = "up"
  /\ jobs[j].state = "active" /\ jobs[j].pc = "incr"
  /\ counter' = incrementRateLimit(counter, jobs[j].senderId,
                                   getCurrentHourWindow(now))
  /\ jobs' = [jobs EXCEPT ![j].state = "completed", ![j].pc = "idle"]
  /\ UNCHANGED <<now, server, crashes, emails, logs, nextAuto, reqs, rec,
                 delivered, firstSendAt, sentIn, atStart, startTime,
                 cancel, failedOpen,
                 loaderErrs,
                 shut>>

\* 9. incrementRateLimit fails: redis.incr rejects, the function logs and
\* rethrows, and the processor's catch block takes the error
IncrementFails(j) ==
  /\ server = "up"
  /\ jobs[j].state = "active" /\ jobs[j].pc = "incr"
  /\ jobs' = [jobs EXCEPT ![j].pc = "catch", ![j].err = "INCR_FAILED"]
  /\ UNCHANGED <<now, server, crashes, emails, logs, nextAuto, counter,
                 reqs, rec, delivered, firstSendAt, sentIn, atStart,
                 startTime, cancel, failedOpen, loaderErrs,
                 shut>>

\* catch: status RETRYING for RATE_LIMITED, FAILED for any other error
Catch(j) ==
  /\ server = "up"
  /\ jobs[j].state = "active" /\ jobs[j].pc = "catch"
  /\ IF jobs[j].err = "RATE_LIMITED"
     THEN /\ emails' = UpdateEmail(emails, jobs[j].emailId, "RETRYING",
                                   "RATE_LIMITED", -1)
          /\ jobs' = [jobs EXCEPT ![j].pc = "throw"]
     ELSE /\ emails' = UpdateEmail(emails, jobs[j].emailId, "FAILED",
                                   jobs[j].err, -1)
          /\ jobs' = [jobs EXCEPT ![j].pc = "faillog"]
  /\ UNCHANGED <<now, server, crashes, logs, nextAuto, counter, reqs, rec,
                 delivered, firstSendAt, sentIn, atStart, startTime,
                 cancel, failedOpen,
                 loaderErrs,
                 shut>>

\* catch: email_logs entry FAILED
InsertFailedLog(j) ==
  /\ server = "up"
  /\ jobs[j].state = "active" /\ jobs[j].pc = "faillog"
  /\ logs' = InsertLog(emails, logs, jobs[j].emailId, "FAILED")
  /\ jobs' = [jobs EXCEPT ![j].pc = "throw"]
  /\ UNCHANGED <<now, server, crashes, emails, nextAuto, counter, reqs,
                 rec, delivered, firstSendAt, sentIn, atStart, startTime,
                 cancel, failedOpen,
                 loaderErrs,
                 shut>>

\* throw error: the queue retries the job after the backoff delay while
\* attempts remain, and moves it to failed otherwise
Throw(j) ==
  /\ server = "up"
  /\ jobs[j].state = "active" /\ jobs[j].pc = "throw"
  /\ LET made == jobs[j].attemptsMade + 1 IN
       jobs' = [jobs EXCEPT ![j] =
         IF made < ATTEMPTS
         THEN [@ EXCEPT !.state = "delayed", !.pc = "idle",
                        !.attemptsMade = made, !.err = "none",
                        !.runAt = now + RetryDelay(made, @.err)]
         ELSE [@ EXCEPT !.state = "failed", !.pc = "idle",
                        !.attemptsMade = made]]
  /\ UNCHANGED <<now, server, crashes, emails, logs, nextAuto, counter,
                 reqs, rec, delivered, firstSendAt, sentIn, atStart,
                 startTime,
                 cancel, failedOpen,
                 loaderErrs,
                 shut>>

\* the queue's stalled-job check: an active job whose processor died with
\* its process goes back to wait once, and is failed the second time
MoveStalled(j) ==
  /\ server = "up"
  /\ jobs[j].state = "active" /\ jobs[j].pc = "orphan"
  /\ jobs' = [jobs EXCEPT ![j] =
       IF @.stalled >= MAX_STALLED_COUNT
       THEN [@ EXCEPT !.state = "failed", !.pc = "idle"]
       ELSE [@ EXCEPT !.state = "delayed", !.pc = "idle", !.err = "none",
                      !.stalled = @ + 1]]
  /\ UNCHANGED <<now, server, crashes, emails, logs, nextAuto, counter,
                 reqs, rec, delivered, firstSendAt, sentIn, atStart,
                 startTime,
                 cancel, failedOpen,
                 loaderErrs,
                 shut>>

\* ------------------------------------------------- crash and restart
Crash ==
  /\ server = "up"
  /\ crashes < MaxCrashes
  /\ server' = "down"
  /\ crashes' = crashes + 1
  /\ jobs' = [j \in JobIds |->
       IF jobs[j].state = "active" THEN [jobs[j] EXCEPT !.pc = "orphan"]
       ELSE jobs[j]]
  /\ reqs' = [r \in ReqIds |->
       IF reqs[r].pc \in {"lookup", "insert", "enqueue", "log"}
       THEN [reqs[r] EXCEPT !.pc = "aborted"] ELSE reqs[r]]
  /\ rec' = [pc |-> "off", pending |-> <<>>]
  /\ cancel' = IF cancel.pc \in {"delete", "log"}
               THEN [cancel EXCEPT !.pc = "aborted"] ELSE cancel
  /\ UNCHANGED <<now, emails, logs, nextAuto, counter, delivered,
                 firstSendAt, sentIn, atStart, startTime, failedOpen,
                 loaderErrs,
                 shut>>

\* startServer: the worker is constructed on import, then the loader runs
Restart ==
  /\ server = "down"
  /\ server' = "up"
  /\ rec' = [pc |-> "query", pending |-> <<>>]
  /\ atStart' = [e \in EmailIds |-> emails[e].status]
  /\ startTime' = now
  /\ loaderErrs' = NoErrs
  /\ shut' = NoShut
  /\ UNCHANGED <<now, crashes, emails, logs, jobs, nextAuto, counter, reqs,
                 delivered, firstSendAt, sentIn, cancel, failedOpen>>

\* ---------------------------------------------------- gracefulShutdown
\* SIGTERM or SIGINT arrives: a no-op when a shutdown is in progress,
\* else set the flag, server.close(), and start closing the worker
Signal ==
  /\ server = "up"
  /\ shut.signals < MaxSignals
  /\ shut' =
       IF AlreadyShuttingDown(shut)
       THEN [shut EXCEPT !.signals = @ + 1]
       ELSE [shut EXCEPT !.signals = @ + 1, !.isShuttingDown = TRUE,
                         !.pc = "worker", !.since = now, !.runs = @ + 1]
  /\ UNCHANGED <<now, server, crashes, emails, logs, jobs, nextAuto, counter,
                 reqs, rec, delivered, firstSendAt, sentIn, atStart,
                 startTime, cancel, failedOpen, loaderErrs>>

\* Promise.race([closeWorker(), 5 s]): worker.close() resolves once no
\* attempt is running; either way the queue is closed next
CloseWorker(timedOut) ==
  /\ server = "up"
  /\ shut.pc = "worker"
  /\ IF timedOut THEN TimerDue ELSE Running = {}
  /\ shut' = [shut EXCEPT !.pc = "queue", !.since = now]
  /\ UNCHANGED <<now, server, crashes, emails, logs, jobs, nextAuto, counter,
                 reqs, rec, delivered, firstSendAt, sentIn, atStart,
                 startTime, cancel, failedOpen, loaderErrs>>

\* Promise.race([closeQueue(), 5 s]); the Redis connection is next
CloseQueue(timedOut) ==
  /\ server = "up"
  /\ shut.pc = "queue"
  /\ timedOut => TimerDue
  /\ shut' = [shut EXCEPT !.pc = "redis", !.since = now]
  /\ UNCHANGED <<now, server, crashes, emails, logs, jobs, nextAuto, counter,
                 reqs, rec, delivered, firstSendAt, sentIn, atStart,
                 startTime, cancel, failedOpen, loaderErrs>>

\* Promise.race([disconnectRedis(), 5 s]), then process.exit(0): whatever
\* the process was still doing is cut off
DisconnectRedis(timedOut) ==
  /\ server = "up"
  /\ shut.pc = "redis"
  /\ timedOut => TimerDue
  /\ shut' = [shut EXCEPT !.pc = "exited"]
  /\ server' = "down"
  /\ jobs' = [j \in JobIds |->
       IF jobs[j].state = "active" THEN [jobs[j] EXCEPT !.pc = "orphan"]
       ELSE jobs[j]]
  /\ reqs' = [r \in ReqIds |->
       IF reqs[r].pc \in {"lookup", "insert", "enqueue", "log"}
       THEN [reqs[r] EXCEPT !.pc = "aborted"] ELSE reqs[r]]
  /\ rec' = [pc |-> "off", pending |-> <<>>]
  /\ cancel' = IF cancel.pc \in {"delete", "log"}
               THEN [cancel EXCEPT !.pc = "aborted"] ELSE cancel
  /\ UNCHANGED <<now, crashes, emails, logs, nextAuto, counter, delivered,
                 firstSendAt, sentIn, atStart, startTime, failedOpen,
                 loaderErrs>>

\* ------------------------------------------------ requeuePendingEmails
\* the rows the query returns, ordered by scheduled_at ascending
PendingRows ==
  {e \in Rows : /\ emails[e].status \in {"SCHEDULED", "RETRYING"}
                /\ emails[e].scheduled_at >= now}

OrderByScheduledAt(S) ==
  CHOOSE q \in [1..Cardinality(S) -> S] :
    /\ \A i, k \in 1..Cardinality(S) : i # k => q[i] # q[k]
    /\ \A i, k \in 1..Cardinality(S) : i < k =>
         \/ emails[q[i]].scheduled_at < emails[q[k]].scheduled_at
         \/ /\ emails[q[i]].scheduled_at = emails[q[k]].scheduled_at
            /\ q[i] < q[k]

RequeueQuery ==
  /\ server = "up"
  /\ rec.pc = "query"
  /\ rec' = IF PendingRows = {} THEN [pc |-> "done", pending |-> <<>>]
            ELSE [pc |-> "loop", pending |-> OrderByScheduledAt(PendingRows)]
  /\ UNCHANGED <<now, server, crashes, emails, logs, jobs, nextAuto,
                 counter, reqs, delivered, firstSendAt, sentIn, atStart,
                 startTime,
                 cancel, failedOpen,
                 loaderErrs,
                 shut>>

\* one iteration of the loop over the fetched rows
RequeueStep ==
  /\ server = "up"
  /\ rec.pc = "loop"
  /\ LET e == Head(rec.pending)
         rest == Tail(rec.pending)
     IN
       /\ IF emails[e].scheduled_at < now
          THEN /\ emails' = UpdateEmail(emails, e, "FAILED", "PAST", -1)
               /\ UNCHANGED jobs
          ELSE /\ jobs' = QueueAdd(jobs,
                            RequeueJobId(e, emails[e].idempotency_key), e,
                            emails[e].sender_id, emails[e].scheduled_at)
               /\ UNCHANGED emails
       /\ rec' = IF rest = <<>> THEN [pc |-> "done", pending |-> <<>>]
                 ELSE [pc |-> "loop", pending |-> rest]
  /\ UNCHANGED <<now, server, crashes, logs, nextAuto, counter, reqs,
                 delivered, firstSendAt, sentIn, atStart, startTime,
                 cancel, failedOpen,
                 loaderErrs,
                 shut>>

\* a loader that gives up the rest of the batch after a failed enqueue
AbandonBatch(rest) == <<>>

\* the loop's catch block: the error is logged and the loop goes on with
\* the rows that remain
AfterEnqueueError(rest) == rest

\* the query fails (the store returns an error, or the call throws into the
\* outer catch): the error is logged and the function returns
RequeueQueryFails ==
  /\ server = "up"
  /\ rec.pc = "query"
  /\ rec' = [pc |-> "done", pending |-> <<>>]
  /\ loaderErrs' = [loaderErrs EXCEPT !.query = TRUE]
  /\ UNCHANGED <<now, server, crashes, emails, logs, jobs, nextAuto,
                 counter, reqs, delivered, firstSendAt, sentIn, atStart,
                 startTime, cancel, failedOpen,
                 shut>>

\* one iteration of the loop in which addEmailToQueue throws
RequeueStepFails ==
  /\ server = "up"
  /\ rec.pc = "loop"
  /\ emails[Head(rec.pending)].scheduled_at >= now
  /\ LET rest == AfterEnqueueError(Tail(rec.pending)) IN
       rec' = IF rest = <<>> THEN [pc |-> "done", pending |-> <<>>]
              ELSE [pc |-> "loop", pending |-> rest]
  /\ loaderErrs' = [loaderErrs EXCEPT !.enqueue = @ \cup {Head(rec.pending)}]
  /\ UNCHANGED <<now, server, crashes, emails, logs, jobs, nextAuto,
                 counter, reqs, delivered, firstSendAt, sentIn, atStart,
                 startTime, cancel, failedOpen,
                 shut>>

\* ---------------------------------------------------------------- Next
\* the schedule controller without an idempotency key, for requests r of R
\* and scheduled times of T
ApiNoKey(R, T) ==
  \/ \E r \in R, t \in T, s \in Senders : ReqStart(r, NoKey, t, s)
  \/ \E r \in R : ReqInsert(r)
  \/ \E r \in R : ReqEnqueue(r)
  \/ \E r \in R : ReqLog(r)

\* the schedule controller, with and without an idempotency key
Api(R, T) ==
  \/ \E r \in R, k \in Keys, t \in T, s \in Senders : ReqStart(r, k, t, s)
  \/ \E r \in R : ReqLookup(r)
  \/ ApiNoKey(R, T)

\* the schedule controller called by two users, each with a sender of
\* their own (getSenderById(senderId, userId) has found it)
ApiUsers(R, T) ==
  \/ \E r \in R, k \in Keys, t \in T, s \in AllSenders : ReqStart(r, k, t, s)
  \/ \E r \in R : ReqLookup(r)
  \/ \E r \in R : ReqInsert(r)
  \/ \E r \in R : ReqEnqueue(r)
  \/ \E r \in R : ReqLog(r)

\* the worker and the queue
Worker ==
  \/ \E j \in JobIds : PickJob(j)
  \/ \E j \in JobIds : CheckRateLimit(j)
  \/ \E j \in JobIds : MarkRetrying(j)
  \/ \E j \in JobIds : Throttle(j)
  \/ \E j \in JobIds, ok \in BOOLEAN : SendEmail(j, ok)
  \/ \E j \in JobIds : UpdateSent(j)
  \/ \E j \in JobIds : InsertSentLog(j)
  \/ \E j \in JobIds : IncrementAndReturn(j)
  \/ \E j \in JobIds : Catch(j)
  \/ \E j \in JobIds : InsertFailedLog(j)
  \/ \E j \in JobIds : Throw(j)

\* process crash, restart and the loader
Recovery ==
  \/ Crash
  \/ Restart
  \/ RequeueQuery
  \/ RequeueStep

Stalled == \E j \in JobIds : MoveStalled(j)

\* termination signals and the close sequence they start
Shutdown ==
  \/ Signal
  \/ \E timedOut \in BOOLEAN : CloseWorker(timedOut)
  \/ \E timedOut \in BOOLEAN : CloseQueue(timedOut)
  \/ \E timedOut \in BOOLEAN : DisconnectRedis(timedOut)

\* failures of the services the worker calls
Faults ==
  \/ \E j \in JobIds : SendEmailInvalid(j)
  \/ \E j \in JobIds : RedisGetFails(j)
  \/ \E j \in JobIds : FailOpen(j)

\* failures of the store and of the queue under the loader
LoaderFaults ==
  \/ RequeueQueryFails
  \/ RequeueStepFails

\* failures of the rate limiter's store after a delivery
CounterFaults == \E j \in JobIds : IncrementFails(j)

\* failures of the record store under the worker
StoreFaults == \E j \in JobIds : UpdateSentFails(j)

\* failures of the queue under the schedule controller
ApiFaults == \E r \in ReqIds : ReqEnqueueFails(r)

\* the cancel controller
CancelApi ==
  \/ \E e \in EmailIds : CancelStart(e)
  \/ CancelDelete
  \/ CancelLog

\* the whole system
Next ==
  \/ Tick \/ Api(ReqIds, SchedTimes) \/ ApiUsers(ReqIds, SchedTimes)
  \/ CancelApi
  \/ Worker \/ Faults \/ StoreFaults \/ CounterFaults \/ ApiFaults
  \/ Recovery \/ LoaderFaults \/ Stalled \/ Shutdown

Spec == Init /\ [][Next]_vars

\* one email through its whole life: one schedule request, the worker, the
\* clock, crashes and restarts
NextOne == Tick \/ Api(1..OneReq, SchedTimes) \/ Worker \/ Recovery \/ Stalled

SpecOne == Init /\ [][NextOne]_vars

\* concurrent schedule requests, crashes and restarts; the worker is idle
NextApi == Tick \/ Api(ReqIds, SchedTimes) \/ Recovery

SpecApi == Init /\ [][NextApi]_vars

\* several emails that are due at once under the worker pool; no crash
NextRate == Tick \/ ApiNoKey(ReqIds, {0}) \/ Worker

SpecRate == Init /\ [][NextRate]_vars

\* one email, its schedule request and a cancel request, under the worker;
\* no crash
NextCancel == Tick \/ ApiNoKey(1..OneReq, SchedTimes) \/ CancelApi \/ Worker

SpecCancel == Init /\ [][NextCancel]_vars

\* one email under the worker while the services it calls fail; no crash
NextFaults ==
  Tick \/ ApiNoKey(1..OneReq, SchedTimes) \/ ApiFaults \/ Worker \/ Faults

SpecFaults == Init /\ [][NextFaults]_vars

\* one email under the worker while writes to the record store fail; no
\* crash
NextStore == Tick \/ ApiNoKey(1..OneReq, SchedTimes) \/ Worker \/ StoreFaults

SpecStore == Init /\ [][NextStore]_vars

\* concurrent schedule requests, crashes and restarts whose loader meets
\* failures of the store and of the queue; the worker is idle
NextLoader == Tick \/ Api(ReqIds, SchedTimes) \/ Recovery \/ LoaderFaults

SpecLoader == Init /\ [][NextLoader]_vars

\* one email under the worker while the counter increment fails; no crash
NextCounter ==
  Tick \/ ApiNoKey(1..OneReq, SchedTimes) \/ Worker \/ CounterFaults

SpecCounter == Init /\ [][NextCounter]_vars

\* two users scheduling with idempotency keys; no worker, no crash
NextUsers == Tick \/ ApiUsers(ReqIds, SchedTimes)

SpecUsers == Init /\ [][NextUsers]_vars

\* one email under the worker while termination signals arrive
NextShutdown ==
  Tick \/ ApiNoKey(1..OneReq, SchedTimes) \/ Worker \/ Shutdown

SpecShutdown == Init /\ [][NextShutdown]_vars

\* ------------------------------------------------------------- properties
Terminal == {"SENT", "FAILED"}
Pending == {"SCHEDULED", "RETRYING"}
Success == {200, 201}

\* the loader has run to its end after a restart
Recovered == server = "up" /\ rec.pc = "done" /\ crashes > 0

\* C1: sendEmail returns success at most once for every email, over any
\* sequence of requests, attempts, retries, crashes and recovery runs.
C1_DeliveredAtMostOnce == \A e \in EmailIds : delivered[e] <= 1

\* C2: sendEmail is never invoked for an email before its scheduled_at,
\* whether the job was added by the schedule controller or by the loader
\* after a restart.
C2_NeverBeforeScheduledAt ==
  \A e \in EmailIds :
    firstSendAt[e] >= 0 => firstSendAt[e] >= emails[e].scheduled_at

\* C2, its case: the job the loader added after a restart that came before
\* the due time has just had sendEmail return for the first time.
C2_SentByRequeuedJob ==
  \E e \in EmailIds :
    /\ jobs[<<"id", e>>].state = "active" /\ jobs[<<"id", e>>].pc = "sent"
    /\ delivered[e] = 1
    /\ startTime < emails[e].scheduled_at

\* C3: a schedule request with key K that follows a successful request with
\* the same K succeeds with the same email id, and leaves exactly one row
\* with key K and at most one queue job for that email.
C3_SameKeySameEmail ==
  \A r1, r2 \in ReqIds :
    ( /\ reqs[r2].pc = "done"
      /\ r1 \in reqs[r2].prior
      /\ reqs[r1].code \in Success
      /\ reqs[r1].key # NoKey
      /\ reqs[r1].key = reqs[r2].key )
    => /\ reqs[r2].code \in Success
       /\ reqs[r2].emailId = reqs[r1].emailId
       /\ Cardinality({e \in Rows : emails[e].idempotency_key = reqs[r1].key}) = 1
       /\ Cardinality(JobsOf(reqs[r1].emailId)) <= 1

\* C3, its case: the second of two successive requests with the same key has
\* been answered with the existing email.
C3_SecondRequestAnswered ==
  \E r1, r2 \in ReqIds :
    /\ reqs[r2].pc = "done" /\ reqs[r2].code = 200
    /\ r1 \in reqs[r2].prior
    /\ reqs[r1].code = 201
    /\ reqs[r1].key # NoKey /\ reqs[r1].key = reqs[r2].key
    /\ JobsOf(reqs[r1].emailId) # {}

\* C4: when two schedule requests with the same key K are interleaved in any
\* order, exactly one row with K exists afterwards and neither request ends
\* in an error.
C4_RaceLoserGetsExisting ==
  \A r1, r2 \in ReqIds :
    ( /\ r1 # r2
      /\ reqs[r1].pc = "done" /\ reqs[r2].pc = "done"
      /\ reqs[r1].key # NoKey
      /\ reqs[r1].key = reqs[r2].key )
    => /\ Cardinality({e \in Rows : emails[e].idempotency_key = reqs[r1].key}) = 1
       /\ reqs[r1].code \in Success
       /\ reqs[r2].code \in Success

\* C5: no two worker attempts for the same email are in flight at the same
\* time, also when the loader runs while older jobs are still in the queue.
C5_OneAttemptInFlight ==
  \A e \in EmailIds : Cardinality({j \in Running : jobs[j].emailId = e}) <= 1

\* C6: no more than the hourly limit of deliveries succeed per sender and
\* hour window, under any interleaving of concurrent attempts.
C6_HourlyLimitHolds ==
  \A s \in Senders, w \in Windows : sentIn[s][w] <= MAX_EMAILS_PER_HOUR

\* C7: when the loader completes, every email that was SCHEDULED or RETRYING
\* at process start has a queue job referencing it or is marked FAILED.
C7_RecoveryComplete ==
  Recovered =>
    \A e \in EmailIds :
      atStart[e] \in Pending => JobsOf(e) # {} \/ emails[e].status = "FAILED"

\* C8: recovery never creates a second queue job for an email, for emails
\* with and without an idempotency key.
C8_OneJobPerEmail == \A e \in EmailIds : Cardinality(JobsOf(e)) <= 1

\* nothing is left that could act on email e: no job that can still run, no
\* request that is about to enqueue it, and no loader run that would fetch it
Settled(e) ==
  /\ Listening
  /\ LiveJobsOf(e) = {}
  /\ \A r \in ReqIds : reqs[r].pc \in {"enqueue", "log"} => reqs[r].emailId # e
  /\ emails[e].scheduled_at < now

\* C9: no scheduled email is lost: every email persisted as SCHEDULED reaches
\* SENT or FAILED; stated on the final result: once nothing is left that
\* could act on an email, the email is SENT or FAILED.
C9_NoEmailLost ==
  \A e \in Rows : Settled(e) => emails[e].status \in Terminal

\* C10: on restart, an email still SCHEDULED whose scheduled_at has already
\* passed is added to the queue for immediate sending.
C10_OverdueRequeued ==
  Recovered =>
    \A e \in EmailIds :
      (atStart[e] = "SCHEDULED" /\ emails[e].scheduled_at < startTime)
        => JobsOf(e) # {}

\* C11: once a cancel request for an email has completed, sendEmail is never
\* invoked for that email afterwards
C11_NoSendAfterCancel ==
  [][\A j \in JobIds :
       (/\ jobs[j].pc = "send" /\ jobs'[j].pc # "send"
        /\ firstSendAt'[jobs[j].emailId] >= 0)
       => ~(/\ cancel.pc = "done" /\ cancel.deleted
            /\ cancel.emailId = jobs[j].emailId)]_vars

\* C12: when an attempt fails with a non-retryable error the email's status
\* becomes FAILED and the queue schedules no retry: the job of the attempt
\* ends failed
C12_NoRetryAfterTerminalFailure ==
  [][\A j \in JobIds :
       (/\ jobs[j].pc = "throw" /\ jobs[j].err = "INVALID_RECIPIENT"
        /\ jobs'[j].pc = "idle")
       => /\ emails'[jobs[j].emailId].status = "FAILED"
          /\ jobs'[j].state = "failed"]_vars

\* C13: a rate-limited attempt does not consume the retry budget: no job
\* ends failed when every one of its attempts was turned away by the rate
\* limiter (sendEmail was never called for its email)
C13_RateLimitKeepsBudget ==
  \A j \in JobIds :
    ~(/\ jobs[j].state = "failed"
      /\ jobs[j].err = "RATE_LIMITED"
      /\ jobs[j].stalled = 0
      /\ firstSendAt[jobs[j].emailId] < 0)

\* C14: after an attempt that the rate limiter turned away, the next attempt
\* of the job is delayed until the start of the next clock hour, not by the
\* exponential retry delay
C14_RateLimitedWaitsForNextHour ==
  [][\A j \in JobIds :
       (/\ jobs[j].pc = "throw" /\ jobs[j].err = "RATE_LIMITED"
        /\ jobs'[j].state = "delayed")
       => jobs'[j].runAt = (getCurrentHourWindow(now) + 1) * HourLen]_vars

\* C15: when the Redis read of checkRateLimit fails, the check returns
\* allowed = true instead of raising, and the attempt proceeds to delivery
C15_LimiterFailsOpen ==
  [][\A j \in JobIds :
       /\ (jobs[j].pc = "checkerr" /\ jobs'[j].pc \notin {"checkerr", "orphan"})
          => /\ jobs'[j].pc = "mark"
             /\ jobs'[j].state = "active"
             /\ jobs'[j].err = "none"
       /\ (/\ jobs[j].pc = "mark" /\ j \in failedOpen
           /\ jobs'[j].pc \notin {"mark", "orphan"})
          => jobs'[j].pc = "throttle"
       /\ (/\ jobs[j].pc = "throttle" /\ j \in failedOpen
           /\ jobs'[j].pc \notin {"throttle", "orphan"})
          => jobs'[j].pc = "send"]_vars

\* an attempt whose rate-limit read failed stands before sendEmail
C15_FailedOpenBeforeSend ==
  \E j \in failedOpen :
    /\ jobs[j].state = "active" /\ jobs[j].pc = "send"
    /\ jobs[j].attemptsMade = 0 /\ jobs[j].stalled = 0

\* C16: once the status of an email is SENT or FAILED it never changes
\* again, and no job of the email is started again
C16_TerminalStatusIsFinal ==
  [][\A e \in EmailIds :
       emails[e].status \in Terminal
       => /\ emails'[e].status = emails[e].status
          /\ \A j \in JobsOf(e) :
               jobs[j].state = "delayed" => jobs'[j].state # "active"]_vars

\* the job has completed on its first attempt
FirstAttemptDone(j) ==
  /\ jobs[j].state = "completed"
  /\ jobs[j].attemptsMade = 0 /\ jobs[j].stalled = 0

\* the email of job j was delivered once, is SENT with sent_at set and has
\* one SENT log entry
SentOnce(j) ==
  LET e == jobs[j].emailId IN
    /\ delivered[e] = 1
    /\ emails[e].status = "SENT"
    /\ emails[e].sent_at >= firstSendAt[e]
    /\ firstSendAt[e] >= emails[e].scheduled_at
    /\ logs[e]["SENT"] = 1 /\ logs[e]["FAILED"] = 0

ClaimedDelayMs(n) == Min(Pow2(n) * 1000, 60000)

\* C18: after delivery failures of a job the delay before retry n is
\* min(2^n seconds, 60 seconds), and no retry delay is shorter than an
\* earlier one
C18_ExponentialBackoff ==
  [][\A j \in JobIds :
       (/\ jobs[j].pc = "throw"
        /\ jobs[j].err \in {"SEND_FAILED", "INVALID_RECIPIENT"}
        /\ jobs'[j].state = "delayed")
       => LET n == jobs'[j].attemptsMade
              delayMs == (jobs'[j].runAt - now) * TICK_MS
          IN /\ delayMs = ClaimedDelayMs(n)
             /\ \A m \in 1..n : ClaimedDelayMs(m) <= delayMs]_vars

\* a job waits for its second retry after two delivery failures
C18_SecondRetryPending ==
  \E j \in JobIds :
    /\ jobs[j].state = "delayed" /\ jobs[j].attemptsMade = 2
    /\ jobs[j].runAt = now + 2
    /\ emails[jobs[j].emailId].status = "FAILED"

\* an attempt for email e was cut off by a crash and left the row RETRYING
Interrupted(e) ==
  /\ emails[e].status = "RETRYING"
  /\ \E j \in JobsOf(e) : jobs[j].state = "active" /\ jobs[j].pc = "orphan"

\* C19: an email whose attempt was interrupted by a crash and whose status
\* was left RETRYING is picked up by requeuePendingEmails on the next start
C19_InterruptedPickedUp ==
  [][(rec.pc = "query" /\ rec'.pc \in {"loop", "done"})
       => \A e \in Rows :
            Interrupted(e)
            => \E i \in 1..Len(rec'.pending) : rec'.pending[i] = e]_vars

\* job j takes the step that leads it to position p
Enters(j, p) == jobs[j].pc # p /\ jobs'[j].pc = p

C21_AttemptCountCounts ==
  [][\A e \in EmailIds :
       emails'[e].status # "NONE"
       => /\ (firstSendAt'[e] < 0) = (emails'[e].attempt_count = 0)
          /\ emails'[e].attempt_count >= emails[e].attempt_count]_vars

\* C22: after a delivery failure with attempts remaining the status of the
\* email is RETRYING, not FAILED; it is FAILED only when the third attempt
\* has failed, and a job makes at most 3 attempts
C22_RetryingWhileAttemptsRemain ==
  [][\A j \in JobIds :
       (/\ jobs[j].pc = "throw"
        /\ jobs[j].err \in {"SEND_FAILED", "INVALID_RECIPIENT"}
        /\ jobs'[j].pc = "idle")
       => /\ jobs'[j].attemptsMade <= ATTEMPTS
          /\ IF jobs'[j].state = "delayed"
             THEN emails'[jobs[j].emailId].status = "RETRYING"
             ELSE /\ emails'[jobs[j].emailId].status = "FAILED"
                  /\ jobs'[j].attemptsMade = ATTEMPTS]_vars

C25_LiveJobWhilePending ==
  \A r \in ReqIds :
    (/\ reqs[r].pc = "done" /\ reqs[r].code = 201
     /\ emails[reqs[r].emailId].status \in Pending)
    => LiveJobsOf(reqs[r].emailId) # {}

\* C26: whenever an attempt has reported success to the queue (the processor
\* has returned and the job is completed), the status of the email is SENT
C26_SentBeforeSuccessReported ==
  \A j \in JobIds :
    jobs[j].state = "completed" => emails[jobs[j].emailId].status = "SENT"

\* C27: no failure inside requeuePendingEmails escapes it or stops the
\* start-up: when the query fails the function returns and the server goes
\* on to listen, and when the enqueue of one email fails the remaining
\* emails of the batch are still processed
C27_LoaderFailuresContained ==
  [][/\ (loaderErrs'.query /\ ~loaderErrs.query)
        => rec.pc = "query" /\ Listening'
     /\ \A e \in EmailIds :
          (e \in loaderErrs'.enqueue /\ e \notin loaderErrs.enqueue)
          => /\ rec.pc = "loop" /\ Head(rec.pending) = e
             /\ server' = "up"
             /\ rec'.pending = Tail(rec.pending)
             /\ IF Tail(rec.pending) = <<>> THEN Listening'
                ELSE rec'.pc = "loop"]_vars

\* the server listens after a loader run in which the enqueue of one email
\* failed and a later email of the batch was queued
C27_RestOfBatchQueued ==
  /\ Listening
  /\ \E e \in loaderErrs.enqueue, f \in Rows \ loaderErrs.enqueue :
       /\ emails[e].scheduled_at < emails[f].scheduled_at
       /\ jobs[<<"id", f>>].state # "none"

\* C28: when an attempt is deferred (rate-limited or failed with attempts
\* left), the scheduled_at of the email is set to the new eligible time
C28_DeferralMovesScheduledAt ==
  [][\A j \in JobIds :
       (/\ jobs[j].pc = "throw" /\ jobs'[j].pc = "idle"
        /\ jobs'[j].state = "delayed")
       => emails'[jobs[j].emailId].scheduled_at = jobs'[j].runAt]_vars

\* C29: any two sendEmail invocations of the worker pool are at least
\* MIN_DELAY_BETWEEN_EMAILS_MS apart, also when several jobs become eligible
\* at the same time; stated for the first invocations of two emails
C29_SendsSpacedByMinDelay ==
  \A e, f \in EmailIds :
    (e # f /\ firstSendAt[e] >= 0 /\ firstSendAt[f] >= 0)
    => \/ firstSendAt[e] - firstSendAt[f] >= MIN_DELAY
       \/ firstSendAt[f] - firstSendAt[e] >= MIN_DELAY

\* C30: a cancel request for an existing email of the caller removes the
\* email and ends with the success response; it never ends with an error
\* response after the email has been removed
C30_CancelSucceedsAfterDelete ==
  (cancel.pc = "done" /\ cancel.deleted) => cancel.code = 200

\* C31: when incrementRateLimit fails after sendEmail has succeeded and SENT
\* has been written, the email stays SENT and its job is not retried
C31_CounterFailureKeepsSent ==
  [][\A j \in JobIds :
       (/\ jobs[j].err = "INCR_FAILED"
        /\ jobs[j].pc \in {"catch", "faillog", "throw"}
        /\ jobs'[j] # jobs[j])
       => /\ emails'[jobs[j].emailId].status = "SENT"
          /\ jobs'[j].state # "delayed"]_vars

\* C32: a schedule request of user U is never answered with an email whose
\* sender belongs to another user, whatever idempotency key it supplies
C32_AnswerOwnedByCaller ==
  \A r \in ReqIds :
    (reqs[r].pc = "done" /\ reqs[r].code \in Success /\ reqs[r].emailId # 0)
    => Owner(emails[reqs[r].emailId].sender_id) = Owner(reqs[r].sender)

\* the order of gracefulShutdown: worker, queue, Redis connection, exit
ShutdownOrder ==
  {<<"run", "worker">>, <<"worker", "queue">>, <<"queue", "redis">>,
   <<"redis", "exited">>}

====
